---- MODULE Spec2Model ----
(***************************************************************************)
(* EvStream (src/lib.rs): a glib signal turned into a futures Stream.      *)
(*                                                                         *)
(* One glib object, up to MaxAdapters EvStream values built on its signal  *)
(* with the ev_stream! macro, the unbounded mpsc channel each of them      *)
(* owns, and the single-threaded main loop that serialises construction,   *)
(* signal emission, polling, unref of the object and drop of the adapter.  *)
(***************************************************************************)
EXTENDS Integers, Sequences, FiniteSets, TLC

\* Bounds of the model.
MaxAdapters == 2
MaxFire == 2
MaxAppRefs == 2

Adapters == 1..MaxAdapters

\* The argument rule of the macro: the default body clones every argument,
\* the emitting object included; a caller-supplied body extracts plain data.
Rules == {"clone", "extract"}

\* Signals the object has, and the names an untyped construction may pass.
SignalNames == {"clicked"}
EventNames == {"clicked", "bogus"}

VARIABLES
    objAlive,    \* the glib object has not been finalized
    appRefs,     \* strong references held by application code
    handlers,    \* closures connected to the signal: [id, chan, rule]
    nextId,      \* next SignalHandlerId glib hands out
    adapter,     \* per construction: [st, signal_id, saw]
    queue,       \* per channel: messages sent and not yet received
    senders,     \* per channel: live UnboundedSender handles
    rcv,         \* per channel: "none" | "open" | "done" | "dropped"
    waker,       \* per channel: "none" | "parked" | "woken"
    fired,       \* per adapter: items its callback produced, in order
    delivered,   \* per adapter: items poll_next returned, in order
    unregCalls,  \* per adapter: disconnect calls made with its token
    panicked,    \* "none" | "send" | "unwrap"
    fires,       \* emissions so far
    missed,      \* per adapter: the signal was emitted after its drop
    redropped    \* per adapter: the drop body ran a second time

objVars == <<objAlive, appRefs, handlers>>
chanVars == <<queue, senders, waker>>
logVars == <<fired, delivered, unregCalls>>
vars == <<objAlive, appRefs, handlers, nextId, adapter, queue, senders, rcv,
          waker, fired, delivered, unregCalls, panicked, fires, missed,
          redropped>>

NoAdapter == [st |-> "unborn", signal_id |-> 0, saw |-> "none"]

Init ==
    /\ objAlive = TRUE
    /\ appRefs \in 1..MaxAppRefs
    /\ handlers = {}
    /\ nextId = 1
    /\ adapter = [a \in Adapters |-> NoAdapter]
    /\ queue = [a \in Adapters |-> <<>>]
    /\ senders = [a \in Adapters |-> 0]
    /\ rcv = [a \in Adapters |-> "none"]
    /\ waker = [a \in Adapters |-> "none"]
    /\ fired = [a \in Adapters |-> <<>>]
    /\ delivered = [a \in Adapters |-> <<>>]
    /\ unregCalls = [a \in Adapters |-> 0]
    /\ panicked = "none"
    /\ fires = 0
    /\ missed = [a \in Adapters |-> FALSE]
    /\ redropped = [a \in Adapters |-> FALSE]

----------------------------------------------------------------------------
\* The toolkit's object model and the channel, as the code relies on them.

\* Strong references to the object held inside one queue's items.
RefItems(q) == Cardinality({i \in 1..Len(q) : q[i].ref})

RECURSIVE QueuedRefs(_, _)
QueuedRefs(q, n) == IF n = 0 THEN 0 ELSE RefItems(q[n]) + QueuedRefs(q, n - 1)

\* The object's strong reference count.
Strong(refs, q) == refs + QueuedRefs(q, MaxAdapters)

\* Channels whose sender is held by a closure in h.
Chans(h) == {x.chan : x \in h}

\* The argument rule of the closure that sends to channel a.
RuleOf(h, a) == (CHOOSE x \in h : x.chan = a).rule

\* Dropping the closures in h drops the sender each holds; the last sender
\* of a channel closes it and wakes a parked receiver.
SendersAfterDrop(s, h) == [a \in Adapters |-> IF a \in Chans(h) THEN s[a] - 1 ELSE s[a]]

\* A last sender that goes away without waking the receiver's task.
MutWakerAfterDropNever(w, h) == w

WakerAfterDrop(w, h) ==
    [a \in Adapters |-> IF a \in Chans(h) /\ w[a] = "parked" THEN "woken" ELSE w[a]]

\* The strong references become refs1 + those in q1; at zero the object is
\* finalized: every handler is destroyed and weak references stop upgrading.
Unref(refs1, q1, h1, s1, w1) ==
    LET dies == objAlive /\ Strong(refs1, q1) = 0
    IN  /\ appRefs' = refs1
        /\ queue' = q1
        /\ objAlive' = (objAlive /\ ~dies)
        /\ handlers' = IF dies THEN {} ELSE h1
        /\ senders' = IF dies THEN SendersAfterDrop(s1, h1) ELSE s1
        /\ waker' = IF dies THEN WakerAfterDrop(w1, h1) ELSE w1

\* A disconnect that leaves the handler connected.
MutDisconnectNothing(h, id) == h

\* A disconnect that removes every handler of the object.
MutDisconnectAll(h, id) == {}

\* obj.disconnect(id)
Disconnect(h, id) == {x \in h : x.id # id}

\* The macro's $cloning_body applied to one emission.
CloningBody(rule, v) == [val |-> v, ref |-> (rule = "clone")]

\* sender.unbounded_send(args): Ok exactly when the receiver still exists.
SendOk(r) == r = "open"

\* A send that pushes at the front of the queue.
MutUnboundedSendFront(q, item) == <<item>> \o q

UnboundedSend(q, item) == Append(q, item)

\* A send that never wakes the receiver's task.
MutWakeOnSendNever(w, targets) == w

\* unbounded_send wakes the task parked on the receiver before it returns.
WakeOnSend(w, targets) ==
    [a \in Adapters |-> IF a \in targets /\ w[a] = "parked" THEN "woken" ELSE w[a]]

\* A poll that looks at the closed flag before the queue.
MutPollNextClosedFirst(q, s, r) ==
    IF r = "done" \/ s = 0 THEN [res |-> "eos", q |-> q, rcv |-> "done"]
    ELSE IF q # <<>> THEN [res |-> "item", q |-> Tail(q), rcv |-> r]
    ELSE [res |-> "pending", q |-> q, rcv |-> r]

\* A poll that takes an empty queue for a closed one.
MutPollNextEosOnEmpty(q, s, r) ==
    IF r = "done" THEN [res |-> "eos", q |-> q, rcv |-> "done"]
    ELSE IF q # <<>> THEN [res |-> "item", q |-> Tail(q), rcv |-> r]
    ELSE [res |-> "eos", q |-> q, rcv |-> "done"]

\* A poll that forgets the stream has ended and waits again.
MutPollNextReopens(q, s, r) ==
    IF r = "done" THEN [res |-> "pending", q |-> q, rcv |-> "open"]
    ELSE IF q # <<>> THEN [res |-> "item", q |-> Tail(q), rcv |-> r]
    ELSE IF s = 0 THEN [res |-> "eos", q |-> q, rcv |-> "done"]
    ELSE [res |-> "pending", q |-> q, rcv |-> r]

\* receiver.poll_next(cx)
PollNext(q, s, r) ==
    IF r = "done" THEN [res |-> "eos", q |-> q, rcv |-> "done"]
    ELSE IF q # <<>> THEN [res |-> "item", q |-> Tail(q), rcv |-> r]
    ELSE IF s = 0 THEN [res |-> "eos", q |-> q, rcv |-> "done"]
    ELSE [res |-> "pending", q |-> q, rcv |-> r]

----------------------------------------------------------------------------
\* EvStream::new as the macro calls it.

NextSlot(a) == adapter[a].st = "unborn" /\ \A b \in Adapters : b < a => adapter[b].st # "unborn"

\* A construction whose closure captures a clone of the object.
MutConnectHoldsRef(a, rule, consume) ==
    /\ nextId' = nextId + 1
    /\ adapter' = [adapter EXCEPT ![a] =
                      [st |-> "live", signal_id |-> nextId, saw |-> "none"]]
    /\ rcv' = [rcv EXCEPT ![a] = "open"]
    /\ Unref(IF consume THEN appRefs ELSE appRefs + 1, queue,
             handlers \cup {[id |-> nextId, chan |-> a, rule |-> rule]},
             [senders EXCEPT ![a] = 1], waker)

\* A construction whose connect_fun runs twice: two closures, one adapter.
MutConnectTwice(a, rule, consume) ==
    /\ nextId' = nextId + 2
    /\ adapter' = [adapter EXCEPT ![a] =
                      [st |-> "live", signal_id |-> nextId + 1, saw |-> "none"]]
    /\ rcv' = [rcv EXCEPT ![a] = "open"]
    /\ Unref(IF consume THEN appRefs - 1 ELSE appRefs, queue,
             handlers \cup {[id |-> nextId, chan |-> a, rule |-> rule],
                            [id |-> nextId + 1, chan |-> a, rule |-> rule]},
             [senders EXCEPT ![a] = 2], waker)

\* connect_fun registers the closure that owns the sender; new wraps the
\* receiver, the weak reference and the token. connect_fun, dropped when new
\* returns, owns the handle named by $this when that handle is an owned one.
Connect(a, rule, consume) ==
    /\ nextId' = nextId + 1
    /\ adapter' = [adapter EXCEPT ![a] =
                      [st |-> "live", signal_id |-> nextId, saw |-> "none"]]
    /\ rcv' = [rcv EXCEPT ![a] = "open"]
    /\ Unref(IF consume THEN appRefs - 1 ELSE appRefs, queue,
             handlers \cup {[id |-> nextId, chan |-> a, rule |-> rule]},
             [senders EXCEPT ![a] = 1], waker)

NewTyped(a, rule, consume) ==
    /\ panicked = "none"
    /\ objAlive /\ appRefs >= 1
    /\ NextSlot(a)
    /\ Connect(a, rule, consume)
    /\ UNCHANGED <<logVars, panicked, fires, missed, redropped>>

\* A failing registration that leaves its closure connected.
MutConnectFailsLeavesHandler(a, consume) ==
    /\ adapter' = [adapter EXCEPT ![a].st = "failed"]
    /\ Unref(IF consume THEN appRefs - 1 ELSE appRefs, queue,
             handlers \cup {[id |-> nextId, chan |-> a, rule |-> "extract"]},
             [senders EXCEPT ![a] = 1], waker)
    /\ UNCHANGED <<nextId, rcv>>

\* connect_local on a name the object does not have panics inside
\* connect_fun: sender, receiver and connect_fun are dropped by the unwind.
ConnectFails(a, consume) ==
    /\ adapter' = [adapter EXCEPT ![a].st = "failed"]
    /\ Unref(IF consume THEN appRefs - 1 ELSE appRefs, queue, handlers, senders, waker)
    /\ UNCHANGED <<nextId, rcv>>

NewUntyped(a, name, rule, consume) ==
    /\ panicked = "none"
    /\ objAlive /\ appRefs >= 1
    /\ NextSlot(a)
    /\ IF name \in SignalNames
       THEN Connect(a, rule, consume)
       ELSE ConnectFails(a, consume)
    /\ UNCHANGED <<logVars, panicked, fires, missed, redropped>>

----------------------------------------------------------------------------
\* An emission that reaches only the handler connected first.
MutFireFirstOnly ==
    /\ panicked = "none"
    /\ objAlive
    /\ fires < MaxFire
    /\ fires' = fires + 1
    /\ missed' = [a \in Adapters |-> missed[a] \/ adapter[a].st = "dropped"]
    /\ LET targets == {x.chan : x \in {y \in handlers : \A z \in handlers : y.id <= z.id}}
           v == fires + 1
       IN  IF \E a \in targets : ~SendOk(rcv[a])
           THEN /\ panicked' = "send"
                /\ UNCHANGED <<objVars, chanVars, fired>>
           ELSE /\ queue' = [a \in Adapters |->
                                IF a \in targets
                                THEN UnboundedSend(queue[a], CloningBody(RuleOf(handlers, a), v))
                                ELSE queue[a]]
                /\ waker' = WakeOnSend(waker, targets)
                /\ fired' = [a \in Adapters |->
                                IF a \in targets
                                THEN Append(fired[a], CloningBody(RuleOf(handlers, a), v))
                                ELSE fired[a]]
                /\ UNCHANGED <<objVars, senders, panicked>>
    /\ UNCHANGED <<nextId, adapter, rcv, delivered, unregCalls, redropped>>

\* The signal is emitted: glib runs every connected closure. The payload of
\* an emission is its ordinal, so that no two emissions carry equal items.

Fire ==
    /\ panicked = "none"
    /\ objAlive
    /\ fires < MaxFire
    /\ fires' = fires + 1
    /\ missed' = [a \in Adapters |-> missed[a] \/ adapter[a].st = "dropped"]
    /\ LET targets == Chans(handlers)
           v == fires + 1
       IN  IF \E a \in targets : ~SendOk(rcv[a])
           THEN /\ panicked' = "send"
                /\ UNCHANGED <<objVars, chanVars, fired>>
           ELSE /\ queue' = [a \in Adapters |->
                                IF a \in targets
                                THEN UnboundedSend(queue[a], CloningBody(RuleOf(handlers, a), v))
                                ELSE queue[a]]
                /\ waker' = WakeOnSend(waker, targets)
                /\ fired' = [a \in Adapters |->
                                IF a \in targets
                                THEN Append(fired[a], CloningBody(RuleOf(handlers, a), v))
                                ELSE fired[a]]
                /\ UNCHANGED <<objVars, senders, panicked>>
    /\ UNCHANGED <<nextId, adapter, rcv, delivered, unregCalls, redropped>>

----------------------------------------------------------------------------
\* The consumer polls the stream. An item that holds a clone of the object
\* is either kept by the consumer or dropped on the spot.

Poll(a, keep) ==
    /\ panicked = "none"
    /\ adapter[a].st = "live"
    /\ LET p == PollNext(queue[a], senders[a], rcv[a])
           got == p.res = "item"
           holds == got /\ Head(queue[a]).ref
       IN  /\ keep => (holds /\ appRefs < MaxAppRefs)
           /\ rcv' = [rcv EXCEPT ![a] = p.rcv]
           /\ delivered' = IF got
                           THEN [delivered EXCEPT ![a] = Append(@, Head(queue[a]))]
                           ELSE delivered
           /\ Unref(IF keep THEN appRefs + 1 ELSE appRefs,
                    [queue EXCEPT ![a] = p.q], handlers, senders,
                    [waker EXCEPT ![a] = IF p.res = "pending" THEN "parked" ELSE "none"])
    /\ UNCHANGED <<nextId, adapter, fired, unregCalls, panicked, fires, missed,
                   redropped>>

----------------------------------------------------------------------------
\* Application code lets go of one strong reference to the object.

Release ==
    /\ panicked = "none"
    /\ appRefs >= 1
    /\ Unref(appRefs - 1, queue, handlers, senders, waker)
    /\ UNCHANGED <<nextId, adapter, rcv, logVars, panicked, fires, missed,
                   redropped>>

----------------------------------------------------------------------------
\* impl Drop for EvStream.

\* A drop that never disconnects.
MutDropBodyNoDisconnect(a) ==
    [panic |-> FALSE, saw |-> IF objAlive THEN "alive" ELSE "gone",
     sig |-> adapter[a].signal_id, calls |-> 0, h |-> handlers, gone |-> {}]

\* A drop that disconnects without looking whether the object still exists.
MutDropBodyNoUpgrade(a) ==
    IF adapter[a].signal_id = 0
    THEN [panic |-> TRUE, saw |-> IF objAlive THEN "alive" ELSE "gone", sig |-> 0,
          calls |-> 0, h |-> handlers, gone |-> {}]
    ELSE [panic |-> FALSE, saw |-> IF objAlive THEN "alive" ELSE "gone", sig |-> 0,
          calls |-> 1, h |-> Disconnect(handlers, adapter[a].signal_id),
          gone |-> handlers \ Disconnect(handlers, adapter[a].signal_id)]

\* A drop that takes the token before it looks for the object.
MutDropBodyTakesFirst(a) ==
    IF adapter[a].signal_id = 0
    THEN [panic |-> objAlive, saw |-> IF objAlive THEN "alive" ELSE "gone", sig |-> 0,
          calls |-> 0, h |-> handlers, gone |-> {}]
    ELSE IF ~objAlive
    THEN [panic |-> FALSE, saw |-> "gone", sig |-> 0,
          calls |-> 0, h |-> handlers, gone |-> {}]
    ELSE [panic |-> FALSE, saw |-> "alive", sig |-> 0,
          calls |-> 1, h |-> Disconnect(handlers, adapter[a].signal_id),
          gone |-> handlers \ Disconnect(handlers, adapter[a].signal_id)]

\* The body of drop, as a function of the state it runs in.
DropBody(a) ==
    IF ~objAlive
    THEN [panic |-> FALSE, saw |-> "gone", sig |-> adapter[a].signal_id,
          calls |-> 0, h |-> handlers, gone |-> {}]
    ELSE IF adapter[a].signal_id = 0
    THEN [panic |-> TRUE, saw |-> "alive", sig |-> 0,
          calls |-> 0, h |-> handlers, gone |-> {}]
    ELSE [panic |-> FALSE, saw |-> "alive", sig |-> 0,
          calls |-> 1, h |-> Disconnect(handlers, adapter[a].signal_id),
          gone |-> handlers \ Disconnect(handlers, adapter[a].signal_id)]

\* drop(&mut self), then the drop of the fields: the receiver, its waker and
\* every item still queued in it. What the consumer saw of this stream ends
\* with the stream.
DropAdapter(a) ==
    /\ panicked = "none"
    /\ adapter[a].st = "live"
    /\ LET d == DropBody(a)
       IN  /\ adapter' = [adapter EXCEPT ![a].st = "dropped",
                                         ![a].signal_id = d.sig,
                                         ![a].saw = d.saw]
           /\ unregCalls' = [unregCalls EXCEPT ![a] = @ + d.calls]
           /\ panicked' = IF d.panic THEN "unwrap" ELSE panicked
           /\ rcv' = [rcv EXCEPT ![a] = "dropped"]
           /\ fired' = [fired EXCEPT ![a] = <<>>]
           /\ delivered' = [delivered EXCEPT ![a] = <<>>]
           /\ Unref(appRefs, [queue EXCEPT ![a] = <<>>], d.h,
                    SendersAfterDrop(senders, d.gone), [waker EXCEPT ![a] = "none"])
    /\ UNCHANGED <<nextId, fires, missed, redropped>>

Next ==
    \/ \E a \in Adapters, r \in Rules, c \in BOOLEAN : NewTyped(a, r, c)
    \/ \E a \in Adapters, n \in EventNames, r \in Rules, c \in BOOLEAN : NewUntyped(a, n, r, c)
    \/ Fire
    \/ \E a \in Adapters, k \in BOOLEAN : Poll(a, k)
    \/ Release
    \/ \E a \in Adapters : DropAdapter(a)

Spec == Init /\ [][Next]_vars

----------------------------------------------------------------------------
\* The body of drop run once more on an adapter that was already dropped.

Redrop(a) ==
    /\ panicked = "none"
    /\ adapter[a].st = "dropped"
    /\ LET d == DropBody(a)
       IN  /\ adapter' = [adapter EXCEPT ![a].signal_id = d.sig]
           /\ unregCalls' = [unregCalls EXCEPT ![a] = @ + d.calls]
           /\ panicked' = IF d.panic THEN "unwrap" ELSE panicked
           /\ Unref(appRefs, queue, d.h, SendersAfterDrop(senders, d.gone), waker)
    /\ redropped' = [redropped EXCEPT ![a] = TRUE]
    /\ UNCHANGED <<nextId, rcv, fired, delivered, fires, missed>>

NextRedrop ==
    \/ Next
    \/ \E a \in Adapters : Redrop(a)

SpecRedrop == Init /\ [][NextRedrop]_vars

----------------------------------------------------------------------------
\* Vocabulary of the properties.

Live(a) == adapter[a].st = "live"
Dropped(a) == adapter[a].st = "dropped"
Failed(a) == adapter[a].st = "failed"

\* The callback of adapter a is connected to the object.
Registered(a) == a \in Chans(handlers)

\* What a poll of adapter a would return in the current state.
WouldPoll(a) == PollNext(queue[a], senders[a], rcv[a]).res

----------------------------------------------------------------------------
\* C1: at every moment of every interleaving of emissions and polls, the
\* items a live adapter has returned, followed by the items still queued,
\* are exactly the items its callback produced, in the order it produced
\* them: nothing is reordered, dropped or duplicated.
C1_FifoDelivery ==
    \A a \in Adapters : Live(a) => delivered[a] \o queue[a] = fired[a]

\* Two emissions, then two polls that returned both items in firing order.
C1_Witness ==
    \E a \in Adapters :
        /\ Live(a)
        /\ Len(delivered[a]) = 2
        /\ delivered[a] = fired[a]
        /\ delivered[a][1].val < delivered[a][2].val

\* C2: an adapter dropped while its object existed made exactly one
\* disconnect call with its token, its callback is no longer connected, and
\* no emission after the drop produces an item for it.
C2_DropUnregistersOnce ==
    \A a \in Adapters :
        (Dropped(a) /\ adapter[a].saw = "alive") =>
            /\ unregCalls[a] = 1
            /\ ~Registered(a)
            /\ queue[a] = <<>>
            /\ fired[a] = <<>>

\* Dropped on a live object, and the signal was emitted afterwards.
C2_Witness ==
    \E a \in Adapters :
        Dropped(a) /\ adapter[a].saw = "alive" /\ missed[a] /\ panicked = "none"

\* C3: an adapter dropped after its object was finalized made no disconnect
\* call, and its drop did not panic.
C3_DropAfterObjectGone ==
    \A a \in Adapters :
        (Dropped(a) /\ adapter[a].saw = "gone") =>
            unregCalls[a] = 0 /\ panicked = "none"

\* Dropped after the object was finalized, the token never used.
C3_Witness ==
    \E a \in Adapters :
        Dropped(a) /\ adapter[a].saw = "gone" /\ ~objAlive /\ adapter[a].signal_id # 0

\* C4: a connected callback always has its receiver, so unbounded_send
\* never fails and the expect never panics.
C4_SendNeverFails ==
    /\ panicked # "send"
    /\ \A a \in Adapters : Registered(a) => SendOk(rcv[a])

\* One adapter dropped on a live object, the signal emitted afterwards
\* and delivered to another adapter.
C4_Witness ==
    \E a, b \in Adapters :
        /\ Dropped(a) /\ missed[a]
        /\ Live(b) /\ Registered(b) /\ queue[b] # <<>>
        /\ fires = MaxFire

\* C5 (as claimed): a second run of the drop body on a dropped adapter makes
\* no further disconnect call and raises no error, whether or not the object
\* still exists.
C5_RedropIsNoOp ==
    \A a \in Adapters :
        redropped[a] => (panicked = "none" /\ unregCalls[a] <= 1)

\* C6: a token is used for at most one disconnect call, never while its
\* adapter is alive and only by a drop that found the object; while adapter
\* and object both exist the callback stays connected under that token.
C6_UnregisterAtMostOnce ==
    \A a \in Adapters :
        /\ unregCalls[a] <= 1
        /\ Live(a) => unregCalls[a] = 0
        /\ unregCalls[a] = 1 => (Dropped(a) /\ adapter[a].saw = "alive")
        /\ (Live(a) /\ objAlive) =>
               \E h \in handlers : h.chan = a /\ h.id = adapter[a].signal_id

\* One adapter dropped and disconnected, another still alive and connected
\* on the same object, with items received.
C6_Witness ==
    \E a, b \in Adapters :
        /\ unregCalls[a] = 1
        /\ Live(b) /\ objAlive /\ Registered(b) /\ fired[b] # <<>>

\* C7: once the object is finalized while the adapter is alive, the items
\* buffered before remain, in order; polls return them and then
\* end-of-sequence, which arrives only after every produced item; and the
\* drop of the adapter makes no disconnect call.
C7_DrainThenEnd ==
    \A a \in Adapters :
        (Live(a) /\ ~objAlive) =>
            /\ delivered[a] \o queue[a] = fired[a]
            /\ WouldPoll(a) = IF queue[a] = <<>> THEN "eos" ELSE "item"
            /\ rcv[a] = "done" => delivered[a] = fired[a]
            /\ DropBody(a).calls = 0

\* Two emissions, the object finalized, one item returned, one still queued.
C7_Witness ==
    \E a \in Adapters :
        /\ Live(a) /\ ~objAlive
        /\ Len(delivered[a]) = 1
        /\ Len(queue[a]) = 1

\* C8: an emission adds one item, the same payload, to the queue of every
\* connected adapter, and a poll of one adapter leaves the queue and the
\* deliveries of every other adapter as they were.
C8_IndependentStreams ==
    [][/\ fires' = fires + 1 =>
            \A a \in Adapters :
                Registered(a) =>
                    /\ Len(queue'[a]) = Len(queue[a]) + 1
                    /\ queue'[a][Len(queue'[a])].val = fires'
       /\ \A a, b \in Adapters :
            (a # b /\ \E k \in BOOLEAN : Poll(a, k)) =>
                (queue'[b] = queue[b] /\ delivered'[b] = delivered[b])]_vars

\* Two adapters on the object, both saw two emissions; one consumed both,
\* the other still has both queued.
C8_Witness ==
    \E a, b \in Adapters :
        /\ a # b /\ Live(a) /\ Live(b)
        /\ Len(delivered[a]) = 2 /\ queue[a] = <<>>
        /\ Len(queue[b]) = 2 /\ delivered[b] = <<>>
        /\ queue[b][1].val = delivered[a][1].val

\* C9: on an empty queue a poll is pending whenever a sender exists; it
\* returns end-of-sequence only on an empty queue with no sender left and
\* the object finalized, never while the object exists with the callback
\* connected.
C9_PendingUnlessClosed ==
    \A a \in Adapters :
        Live(a) =>
            /\ (queue[a] = <<>> /\ senders[a] > 0) => WouldPoll(a) = "pending"
            /\ WouldPoll(a) = "eos" => (queue[a] = <<>> /\ senders[a] = 0 /\ ~objAlive)
            /\ (objAlive /\ Registered(a)) => WouldPoll(a) # "eos"
            /\ rcv[a] = "done" => ~objAlive

\* A poll returned end-of-sequence after the items were delivered.
C9_Witness ==
    \E a \in Adapters :
        Live(a) /\ rcv[a] = "done" /\ delivered[a] # <<>> /\ ~objAlive

\* C10: an untyped construction on a name the object does not have yields
\* no adapter and leaves no handler, sender, receiver or token behind.
C10_UnknownEventFails ==
    [][\A a \in Adapters :
          (adapter[a].st = "unborn" /\ Failed(a)') =>
              /\ handlers' \subseteq handlers
              /\ ~Registered(a)'
              /\ nextId' = nextId
              /\ rcv'[a] = "none" /\ senders'[a] = 0
              /\ adapter'[a].signal_id = 0]_vars

\* A failed construction next to an adapter that is still connected.
C10_Witness ==
    \E a, b \in Adapters :
        Failed(a) /\ Live(b) /\ Registered(b) /\ objAlive

\* C11: every handler the constructions connected belongs to exactly one
\* live adapter, which holds its token, and every live adapter on a live
\* object has exactly one handler: no subscription without an owner, one
\* callback per construction.
C11_SubscriptionHasOwner ==
    /\ \A h \in handlers : Live(h.chan) /\ adapter[h.chan].signal_id = h.id
    /\ \A h, g \in handlers : (h.chan = g.chan \/ h.id = g.id) => h = g
    /\ \A a \in Adapters :
          (Live(a) /\ objAlive) => Cardinality({h \in handlers : h.chan = a}) = 1
    /\ \A a \in Adapters : ~Live(a) => ~Registered(a)

\* Two constructions on the live object, two handlers, two owners.
C11_Witness ==
    /\ objAlive
    /\ Cardinality(handlers) = 2
    /\ \A a \in Adapters : Live(a)

\* C12 (as claimed): nothing of a subscription keeps the object alive, so
\* once application code holds no owning reference the object is gone.
C12_NoLifetimeExtension ==
    appRefs = 0 => ~objAlive

\* C12 (amended): a construction never raises the owning-reference count
\* (it lowers it by one when the macro was given an owned handle), and the
\* only owning references besides the application's are the queued items
\* the default cloning rule made from the emitter: with none of either, the
\* object is finalized however many adapters are alive.
C12_OnlyQueuedItemsOwn ==
    [][/\ (\E a \in Adapters : adapter[a].st = "unborn" /\ Live(a)') =>
            /\ Strong(appRefs', queue') <= Strong(appRefs, queue)
            /\ Strong(appRefs', queue') >= Strong(appRefs, queue) - 1
            /\ queue' = queue
       /\ objAlive' = (objAlive /\ Strong(appRefs', queue') > 0)]_vars

\* The object was finalized with two adapters alive on it, items still
\* queued in one of them.
C12_Witness ==
    /\ ~objAlive
    /\ \A a \in Adapters : Live(a)
    /\ \E a \in Adapters : queue[a] # <<>>

\* C13 (as claimed): after the drop the token is taken out of the adapter,
\* whether the drop found the object or not.
C13_TokenConsumed ==
    \A a \in Adapters : Dropped(a) => adapter[a].signal_id = 0

\* C13 (amended): a drop that found the object took the token and used it
\* for its one disconnect call; a drop that found the object gone left the
\* token where it was, unused, to be discarded with the adapter. On both
\* paths no handler is left under that token.
C13_TokenAfterDrop ==
    \A a \in Adapters :
        Dropped(a) =>
            /\ adapter[a].saw = "alive" =>
                   (adapter[a].signal_id = 0 /\ unregCalls[a] = 1)
            /\ adapter[a].saw = "gone" =>
                   (adapter[a].signal_id # 0 /\ unregCalls[a] = 0)
            /\ adapter[a].saw \in {"alive", "gone"}
            /\ ~Registered(a)

\* One adapter dropped on the live object, another after it was finalized.
C13_Witness ==
    \E a, b \in Adapters :
        /\ Dropped(a) /\ adapter[a].saw = "alive"
        /\ Dropped(b) /\ adapter[b].saw = "gone"

\* C14: a consumer parked on a live adapter has an empty queue: the
\* emission that enqueues an item wakes it in the same step, and the poll
\* of a woken consumer returns the item at the head of the queue (or
\* end-of-sequence when it was the closing of the channel that woke it).
C14_WokenBySend ==
    \A a \in Adapters :
        Live(a) =>
            /\ waker[a] = "parked" => (queue[a] = <<>> /\ WouldPoll(a) = "pending")
            /\ (waker[a] = "woken" /\ queue[a] # <<>>) => WouldPoll(a) = "item"
            /\ (waker[a] = "woken" /\ queue[a] = <<>>) => WouldPoll(a) = "eos"

\* A parked consumer was woken by an emission; the item waits in the queue.
C14_Witness ==
    \E a \in Adapters :
        /\ Live(a) /\ objAlive /\ Registered(a)
        /\ waker[a] = "woken"
        /\ Len(queue[a]) = 1 /\ delivered[a] = <<>>

----------------------------------------------------------------------------
\* The main context polls a task that was woken: a woken consumer's poll
\* is not postponed forever.

WokenPoll(a) == waker[a] = "woken" /\ \E k \in BOOLEAN : Poll(a, k)

Fairness == \A a \in Adapters : WF_vars(WokenPoll(a))

SpecLive == Init /\ [][Next]_vars /\ Fairness

\* C15: a consumer suspended on an empty queue when the object is finalized
\* is woken, and its poll returns end-of-sequence (unless the adapter is
\* dropped first): it does not stay suspended once the object is gone.
C15_EndAfterObjectGone ==
    \A a \in Adapters :
        (Live(a) /\ ~objAlive /\ queue[a] = <<>> /\ waker[a] \in {"parked", "woken"})
            ~> (rcv[a] = "done" \/ Dropped(a))

\* The object was finalized under a parked consumer, which has been woken
\* and has not polled yet.
C15_Witness ==
    \E a \in Adapters :
        /\ Live(a) /\ ~objAlive
        /\ waker[a] = "woken" /\ queue[a] = <<>> /\ rcv[a] = "open"

\* C16: once a poll of an adapter has returned end-of-sequence, every
\* later poll of it returns end-of-sequence and it delivers and receives
\* nothing more until it is dropped; a dropped adapter stays dropped, with
\* no handler, no queue and no items. Later emissions reach only adapters
\* constructed afresh.
C16_NotRestartable ==
    [][\A a \in Adapters :
          /\ (Live(a) /\ rcv[a] = "done") =>
                /\ WouldPoll(a) = "eos"
                /\ rcv'[a] \in {"done", "dropped"}
                /\ Live(a)' => (delivered'[a] = delivered[a] /\ fired'[a] = fired[a])
                /\ queue'[a] = <<>>
                /\ ~Registered(a)'
          /\ Dropped(a) =>
                /\ Dropped(a)'
                /\ rcv'[a] = "dropped"
                /\ queue'[a] = <<>> /\ fired'[a] = <<>> /\ delivered'[a] = <<>>
                /\ ~Registered(a)']_vars

\* One adapter was dropped and an emission after its drop reached the
\* adapter constructed next to it, which has since been polled to its end.
C16_Witness ==
    \E a, b \in Adapters :
        /\ Dropped(a) /\ missed[a]
        /\ Live(b) /\ rcv[b] = "done" /\ delivered[b] # <<>>

\* C17 (as claimed): the drop of one adapter leaves every other live
\* adapter's callback connected and its token, sender and queue unchanged.
C17_DropLeavesOthers ==
    [][\A a, b \in Adapters :
          (a # b /\ Live(a) /\ Dropped(a)' /\ Live(b)) =>
              /\ Registered(b)' = Registered(b)
              /\ senders'[b] = senders[b]
              /\ adapter'[b] = adapter[b]
              /\ queue'[b] = queue[b]]_vars

\* C17 (amended): the drop of one adapter leaves every other live adapter's
\* token, receiver, queue and deliveries unchanged, and its callback
\* connected and receiving every later emission as long as the object
\* outlives the drop; the object ends with the drop only when the dropped
\* adapter's queue held the last owning references to it, and then the
\* other adapters' callbacks and senders end with the object.
C17_DropLeavesOthersWhileObjectLives ==
    [][/\ \A a, b \in Adapters :
            (a # b /\ Live(a) /\ Dropped(a)' /\ Live(b)) =>
                /\ adapter'[b] = adapter[b]
                /\ rcv'[b] = rcv[b]
                /\ queue'[b] = queue[b]
                /\ delivered'[b] = delivered[b] /\ fired'[b] = fired[b]
                /\ Registered(b)' = (Registered(b) /\ objAlive')
                /\ objAlive' => (senders'[b] = senders[b] /\ waker'[b] = waker[b])
                /\ (objAlive /\ ~objAlive') => (appRefs = 0 /\ RefItems(queue[a]) > 0)
       /\ \A a, b \in Adapters :
            (Dropped(a) /\ Registered(b) /\ fires' = fires + 1) =>
                queue'[b] = Append(queue[b], CloningBody(RuleOf(handlers, b), fires'))]_vars

\* One adapter was dropped; the other is still connected under its token
\* and received both emissions, one of them after the drop.
C17_Witness ==
    \E a, b \in Adapters :
        /\ Dropped(a) /\ missed[a] /\ adapter[a].saw = "alive"
        /\ Live(b) /\ objAlive /\ Registered(b) /\ Len(fired[b]) = 2

====
